---- MODULE Spec2Model ----
(***************************************************************************)
(* The wildfire dashboard of streamlit_app.py as a state machine.          *)
(*                                                                         *)
(* One render pass is one run of the whole script: it obtains the table    *)
(* from the memoized loader, annotates it, aggregates it, filters it and   *)
(* emits the four charts.  The first pass happens when the session starts, *)
(* every later pass is triggered by a change of the dropdown.  A click on  *)
(* a bar changes the point selection of the bar chart, which the browser   *)
(* holds; the opacity of the bars and the rows of the line chart are       *)
(* functions of that selection.                                            *)
(*                                                                         *)
(* A cell of a table is Missing (NaN, NaT) or Some(v).  A table is a       *)
(* sequence of rows, a row a record from column names to cells.  A date is *)
(* a timestamp, counted in ticks of which TicksPerDay make a day.          *)
(***************************************************************************)
EXTENDS Integers, Sequences, FiniteSets, TLC

VARIABLES
    file,             \* the rows of Full_Wildfire_Dataset__1992_2015_.csv
    cache,            \* the value st.cache_data holds for load_data()
    data,             \* the script's `data` when the pass ended
    state_counts,     \* the frame of line 40
    yearly_trends,    \* the frame of line 66
    state_options,    \* the option list of line 104
    selected_state,   \* the value st.selectbox returned, line 106
    scatter_data,     \* the frame of line 109
    charts,           \* the charts the pass handed to st.altair_chart
    widget,           \* the dropdown value the session holds
    click_selection,  \* the states in the point selection of line 45
    status            \* "init" before the first pass, then "ok" or "error"

vars == <<file, cache, data, state_counts, yearly_trends, state_options,
          selected_state, scatter_data, charts, widget, click_selection,
          status>>

----------------------------------------------------------------------------
(* Cells, and the tables the model is run on                               *)

Missing == <<>>
Some(v) == <<v>>

MaxRows == 2

TicksPerDay == 2

\* a discovery at the start of day 1; containments part of a day before it,
\* at the same instant, and more than one day after it
SampleStates      == {"CA", "PR"}
SampleYears       == {2000, 2001}
SampleDiscovery   == {2}
SampleContainment == {1, 2, 5}
SampleSizes       == {10}
SampleCauses      == {"Lightning"}

Columns == {"STATE", "FIRE_YEAR", "DISCOVERY_DATE", "CONTAINMENT_DATE",
            "FIRE_SIZE", "STAT_CAUSE_DESCR"}

\* STATE is a reserved word of TLA+: rows are built and read with r["STATE"]
Row(st, yr, disc, cont, size, cause) ==
    [c \in Columns |->
        CASE c = "STATE"            -> st
          [] c = "FIRE_YEAR"        -> yr
          [] c = "DISCOVERY_DATE"   -> disc
          [] c = "CONTAINMENT_DATE" -> cont
          [] c = "FIRE_SIZE"        -> size
          [] c = "STAT_CAUSE_DESCR" -> cause]

CompleteRows ==
    {Row(Some(s), Some(y), Some(d), Some(e), Some(a), Some(c)) :
        s \in SampleStates, y \in SampleYears, d \in SampleDiscovery,
        e \in SampleContainment, a \in SampleSizes, c \in SampleCauses}

\* one complete row per state, contained after its discovery
ReferenceRows ==
    {r \in CompleteRows : /\ \A o \in CompleteRows : r["FIRE_YEAR"][1] <= o["FIRE_YEAR"][1]
                          /\ r["CONTAINMENT_DATE"][1] > r["DISCOVERY_DATE"][1]}

\* the complete rows, and the reference rows with one cell missing
RowPool ==
    CompleteRows \cup {[r EXCEPT ![c] = Missing] : r \in ReferenceRows, c \in Columns}

Tables == UNION {[1..n -> RowPool] : n \in 0..MaxRows}

----------------------------------------------------------------------------
(* Frame helpers                                                           *)

Range(s) == {s[i] : i \in DOMAIN s}

\* the ascending order of the strings the model uses (Python's str order)
Collation == <<"All States", "CA", "PR">>

Rank(x) == CHOOSE i \in DOMAIN Collation : Collation[i] = x

StringColumns == {"STATE", "STAT_CAUSE_DESCR", "REGION"}

\* a < b for two cells of column col; a missing cell sorts last
CellLess(col, a, b) ==
    /\ a # Missing
    /\ \/ b = Missing
       \/ IF col \in StringColumns THEN Rank(a[1]) < Rank(b[1]) ELSE a[1] < b[1]

\* ka < kb for two key tuples of the key columns keys
KeyLess(keys, ka, kb) ==
    \E i \in DOMAIN keys :
        /\ \A j \in 1..(i - 1) : ka[j] = kb[j]
        /\ CellLess(keys[i], ka[i], kb[i])

RECURSIVE SortKeys(_, _)
SortKeys(keys, S) ==
    IF S = {} THEN <<>>
    ELSE LET least == CHOOSE k \in S : \A o \in S \ {k} : KeyLess(keys, k, o)
         IN  <<least>> \o SortKeys(keys, S \ {least})

\* table[col] = series: the cells of `series` as column col, the other
\* columns kept
SetColumn(table, col, series) ==
    [i \in DOMAIN table |->
        [c \in (DOMAIN table[i]) \cup {col} |->
            IF c = col THEN series[i] ELSE table[i][c]]]

----------------------------------------------------------------------------
(* Region Mapper, lines 25-37                                              *)

Regions == <<"Pacific", "Mountain", "West South Central", "East South Central",
             "South Atlantic", "West North Central", "East North Central",
             "Mid-Atlantic", "New England">>

region_map(region) ==
    CASE region = "Pacific"            -> <<"AK", "CA", "HI", "OR", "WA">>
      [] region = "Mountain"           -> <<"AZ", "CO", "ID", "MT", "NV", "NM", "UT", "WY">>
      [] region = "West South Central" -> <<"AR", "LA", "OK", "TX">>
      [] region = "East South Central" -> <<"AL", "KY", "MS", "TN">>
      [] region = "South Atlantic"     -> <<"DE", "DC", "FL", "GA", "MD", "NC", "SC", "VA", "WV">>
      [] region = "West North Central" -> <<"IA", "KS", "MN", "MO", "NE", "ND", "SD">>
      [] region = "East North Central" -> <<"IL", "IN", "MI", "OH", "WI">>
      [] region = "Mid-Atlantic"       -> <<"NJ", "NY", "PA">>
      [] region = "New England"        -> <<"CT", "ME", "MA", "NH", "RI", "VT">>

\* the dict comprehension of line 36: a later entry for a code replaces an
\* earlier one; a code under no region is no key of the dict
state_to_region(code) ==
    LET holders == {i \in DOMAIN Regions : code \in Range(region_map(Regions[i]))}
    IN  IF holders = {} THEN Missing
        ELSE Some(Regions[CHOOSE i \in holders : \A j \in holders : j <= i])

\* Series.map(dict): a missing code, or a code that is no key, gives NaN
RegionOf(row) ==
    IF row["STATE"] = Missing THEN Missing ELSE state_to_region(row["STATE"][1])

\* an inner join with the lookup table: rows without a region are dropped
WithRegionKnownOnly(table) ==
    SelectSeq(SetColumn(table, "REGION", [i \in DOMAIN table |-> RegionOf(table[i])]),
              LAMBDA row : row["REGION"] # Missing)

\* line 37: data["REGION"] = data["STATE"].map(state_to_region)
WithRegion(table) ==
    SetColumn(table, "REGION", [i \in DOMAIN table |-> RegionOf(table[i])])

----------------------------------------------------------------------------
(* Aggregation Engine, lines 40, 66 and 99-101                             *)

KeyOf(keys, row) == [i \in DOMAIN keys |-> row[keys[i]]]

\* groupby(..., dropna=False): a missing key is a group of its own
HasKeysKeepMissing(keys, row) == TRUE

\* groupby's default dropna=True: a row with a missing key is in no group
HasKeys(keys, row) == \A i \in DOMAIN keys : row[keys[i]] # Missing

\* table.groupby(keys).size().reset_index(name="Fire_Count"): one row per
\* key tuple that occurs, in ascending order of the keys
GroupBySize(table, keys) ==
    LET grouped == {i \in DOMAIN table : HasKeys(keys, table[i])}
        groups  == SortKeys(keys, {KeyOf(keys, table[i]) : i \in grouped})
    IN  [g \in DOMAIN groups |->
            [c \in Range(keys) \cup {"Fire_Count"} |->
                IF c = "Fire_Count"
                THEN Cardinality({i \in grouped : KeyOf(keys, table[i]) = groups[g]})
                ELSE groups[g][CHOOSE k \in DOMAIN keys : keys[k] = c]]]

\* (CONTAINMENT_DATE - DISCOVERY_DATE).dt.days: NaT when either date is NaT,
\* else the days component of the difference, which is its floor in days
DurationDays(row) ==
    IF row["CONTAINMENT_DATE"] = Missing \/ row["DISCOVERY_DATE"] = Missing
    THEN Missing
    ELSE Some((row["CONTAINMENT_DATE"][1] - row["DISCOVERY_DATE"][1]) \div TicksPerDay)

DropnaSubset == {"DURATION_DAYS", "FIRE_SIZE", "STAT_CAUSE_DESCR"}

\* line 100: data.dropna(subset=[...])
Dropna(table, subset) ==
    SelectSeq(table, LAMBDA row : \A c \in subset : row[c] # Missing)

\* data[data["DURATION_DAYS"] > 0]
StrictlyPositive(table) ==
    SelectSeq(table, LAMBDA row : row["DURATION_DAYS"] # Missing
                                  /\ row["DURATION_DAYS"][1] > 0)

\* line 101: data[data["DURATION_DAYS"] >= 0]
NonNegative(table) ==
    SelectSeq(table, LAMBDA row : row["DURATION_DAYS"] # Missing
                                  /\ row["DURATION_DAYS"][1] >= 0)

\* line 99: data["DURATION_DAYS"] = (... - ...).dt.days
WithDurationDays(table) ==
    SetColumn(table, "DURATION_DAYS", [i \in DOMAIN table |-> DurationDays(table[i])])

\* lines 99-101 on the annotated table
WithDuration(table) == NonNegative(Dropna(WithDurationDays(table), DropnaSubset))

\* the count taken after lines 99-101 instead of before them
StateCountsAfterDrop(table) == GroupBySize(WithDuration(table), <<"STATE">>)

\* line 40, on the table as it is after line 37
StateCounts(table) == GroupBySize(table, <<"STATE">>)

\* line 66, on the table as it is after line 37
YearlyTrends(table) == GroupBySize(table, <<"FIRE_YEAR", "STATE">>)

----------------------------------------------------------------------------
(* Dropdown and filtered view, lines 104-109                               *)

\* line 104: ["All States"] + sorted(data["STATE"].dropna().unique())
StateOptions(table) ==
    LET codes  == {<<table[i]["STATE"]>> : i \in {j \in DOMAIN table : table[j]["STATE"] # Missing}}
        sorted == SortKeys(<<"STATE">>, codes)
    IN  <<"All States">> \o [i \in DOMAIN sorted |-> sorted[i][1][1]]

\* list.index(x): the first position of x, or Missing for the ValueError
IndexOf(list, x) ==
    LET at == {i \in DOMAIN list : list[i] = x}
    IN  IF at = {} THEN Missing ELSE Some(CHOOSE i \in at : \A j \in at : i <= j)

\* a default that falls back to the first option
DefaultIndexOrFirst(options) ==
    IF IndexOf(options, "CA") = Missing THEN Some(1) ELSE IndexOf(options, "CA")

\* the index= argument of line 106
DefaultIndex(options) == IndexOf(options, "CA")

\* the dropdown value ignored
ScatterDataUnfiltered(table, selected) == table

\* line 109
ScatterData(table, selected) ==
    IF selected = "All States" THEN table
    ELSE SelectSeq(table, LAMBDA row : row["STATE"] = Some(selected))

----------------------------------------------------------------------------
(* Selection State, line 45, and the two encodings that read it            *)

\* a toggle expression that is always true: every click toggles
SelectionAfterClickAlwaysToggle(selection, code, shiftKey) ==
    IF code \in selection THEN selection \ {code} ELSE selection \cup {code}

\* selection_point(toggle=True): True stands for Vega-Lite's default toggle
\* expression, event.shiftKey.  With shift the clicked value is toggled in
\* the selection; without it the selection becomes the clicked value alone
\* (the caption of line 88: hold Shift to select several bars).
SelectionAfterClick(selection, code, shiftKey) ==
    IF shiftKey
    THEN IF code \in selection THEN selection \ {code} ELSE selection \cup {code}
    ELSE {code}

\* empty="all", Altair's default: an empty selection matches every datum
SelectionTestEmptyAll(selection, code) ==
    selection = {} \/ code \in selection

\* the selection as a predicate on a datum; empty="none": an empty
\* selection matches no datum
SelectionTest(selection, code) ==
    IF selection = {} THEN FALSE ELSE code \in selection

\* line 57: alt.condition(click_selection, alt.value(1), alt.value(0.5)),
\* in percent
BarOpacity(selection, code) ==
    IF SelectionTest(selection, code) THEN 100 ELSE 50

\* a filter that is skipped while nothing is selected
LineChartRowsAllWhenEmpty(trends, selection) ==
    IF selection = {} THEN trends
    ELSE SelectSeq(trends, LAMBDA row : /\ row["STATE"] # Missing
                                        /\ row["STATE"][1] \in selection)

\* lines 73-75: transform_filter(click_selection) on yearly_trends
LineChartRows(trends, selection) ==
    SelectSeq(trends, LAMBDA row : /\ row["STATE"] # Missing
                                   /\ SelectionTest(selection, row["STATE"][1]))

----------------------------------------------------------------------------
(* Dataset Loader, lines 18-22                                             *)

NotLoaded == [loaded |-> FALSE, value |-> <<>>]

\* load_data(): the stored table, read from the file on the first call
LoadData(stored, csv) == IF stored.loaded THEN stored.value ELSE csv

\* st.cache_resource: every caller gets the stored object itself
StoredAfterPassShared(table, mutated) == [loaded |-> TRUE, value |-> mutated]

\* st.cache_data hands every caller its own copy of the stored table: the
\* column assignments of lines 37 and 99, made in place on the caller's
\* table (`mutated` is that table after them), do not reach the stored one
StoredAfterPass(table, mutated) == [loaded |-> TRUE, value |-> table]

----------------------------------------------------------------------------
(* One run of the script, lines 22-149                                     *)

Pass(raw, chosen) ==
    LET annotated == WithRegion(raw)
        counts    == StateCounts(annotated)
        trends    == YearlyTrends(annotated)
        filtered  == WithDuration(annotated)
        options   == StateOptions(filtered)
        index     == DefaultIndex(options)
        mutated   == WithDurationDays(annotated)
    IN  IF index = Missing
        THEN \* line 106 raises ValueError: the script stops after line 90
             [status |-> "error", mutated |-> mutated, data |-> filtered,
              state_counts |-> counts, yearly_trends |-> trends,
              state_options |-> options, selected_state |-> Missing,
              scatter_data |-> <<>>, charts |-> {"bar", "line"}]
        ELSE LET selected == IF chosen # Missing /\ chosen[1] \in Range(options)
                             THEN chosen[1] ELSE options[index[1]]
             IN  [status |-> "ok", mutated |-> mutated, data |-> filtered,
                  state_counts |-> counts, yearly_trends |-> trends,
                  state_options |-> options, selected_state |-> Some(selected),
                  scatter_data |-> ScatterData(filtered, selected),
                  charts |-> {"bar", "line", "strip", "box"}]

Render(chosen) ==
    \E raw \in {LoadData(cache, file)} : \E run \in {Pass(raw, chosen)} :
        /\ cache' = StoredAfterPass(raw, run.mutated)
        /\ data' = run.data
        /\ state_counts' = run.state_counts
        /\ yearly_trends' = run.yearly_trends
        /\ state_options' = run.state_options
        /\ selected_state' = run.selected_state
        /\ scatter_data' = run.scatter_data
        /\ charts' = run.charts
        /\ status' = run.status
        /\ widget' = chosen
        /\ UNCHANGED <<file, click_selection>>

Init ==
    /\ file \in Tables
    /\ cache = NotLoaded
    /\ data = <<>>
    /\ state_counts = <<>>
    /\ yearly_trends = <<>>
    /\ state_options = <<>>
    /\ selected_state = Missing
    /\ scatter_data = <<>>
    /\ charts = {}
    /\ widget = Missing
    /\ click_selection = {}
    /\ status = "init"

\* the session starts: the first run of the script
FirstRun ==
    /\ status = "init"
    /\ Render(Missing)

\* the user picks another option of the dropdown: the script runs again
SelectState(option) ==
    /\ status = "ok"
    /\ option \in Range(state_options)
    /\ Some(option) # selected_state
    /\ Render(Some(option))

\* the states that have a bar: one bar per row of state_counts
BarStates ==
    {code \in SampleStates : \E i \in DOMAIN state_counts : state_counts[i]["STATE"] = Some(code)}

\* the user clicks the bar of a state, with or without the shift key
BarClick(code, shiftKey) ==
    /\ "bar" \in charts
    /\ code \in BarStates
    /\ click_selection' = SelectionAfterClick(click_selection, code, shiftKey)
    /\ UNCHANGED <<file, cache, data, state_counts, yearly_trends,
                   state_options, selected_state, scatter_data, charts,
                   widget, status>>

Next ==
    \/ FirstRun
    \/ \E option \in Range(Collation) : SelectState(option)
    \/ \E code \in SampleStates, shiftKey \in BOOLEAN : BarClick(code, shiftKey)

Spec == Init /\ [][Next]_vars

----------------------------------------------------------------------------
(* Vocabulary of the properties                                            *)

Rendered == status # "init"

\* the rows of the file with the given state code, and with code and year
RowsOfState(code) == {i \in DOMAIN file : file[i]["STATE"] = Some(code)}

RowsOfYearState(year, code) ==
    {i \in RowsOfState(code) : file[i]["FIRE_YEAR"] = Some(year)}

\* a row of the file that the duration filter is to keep
Kept(row) ==
    /\ row["DISCOVERY_DATE"] # Missing
    /\ row["CONTAINMENT_DATE"] # Missing
    /\ row["FIRE_SIZE"] # Missing
    /\ row["STAT_CAUSE_DESCR"] # Missing
    /\ row["CONTAINMENT_DATE"][1] >= row["DISCOVERY_DATE"][1]

\* a frame cut down to the columns of the file
FileColumns(table) == [i \in DOMAIN table |-> [c \in Columns |-> table[i][c]]]

\* the Fire_Count of the rows of a frame whose cells match `cells`, summed
RECURSIVE SumCounts(_, _)
SumCounts(frame, cells) ==
    IF frame = <<>> THEN 0
    ELSE (IF \A c \in DOMAIN cells : Head(frame)[c] = cells[c]
          THEN Head(frame)["Fire_Count"] ELSE 0)
         + SumCounts(Tail(frame), cells)

\* the number of rows of a frame whose cells match `cells`
Matching(frame, cells) ==
    Cardinality({i \in DOMAIN frame : \A c \in DOMAIN cells : frame[i][c] = cells[c]})

----------------------------------------------------------------------------
(* C1                                                                      *)

Toggled(selection, code) ==
    IF code \in selection THEN selection \ {code} ELSE selection \cup {code}

\* C1, as stated: every click on the bar of a state toggles that state in
\* the selection and leaves the other selected states as they were.
C1_EveryClickToggles ==
    [][\A code \in SampleStates :
          (\E shiftKey \in BOOLEAN : BarClick(code, shiftKey))
              => click_selection' = Toggled(click_selection, code)]_vars

\* C1, amended: a click with the shift key held toggles the clicked state and
\* leaves the other selected states as they were, so a second shift-click
\* on the same bar restores the set; a click without the shift key makes the
\* selection the clicked state alone.
C1_ShiftClickToggles ==
    [][\A code \in SampleStates :
          /\ BarClick(code, TRUE) =>
                /\ click_selection' = Toggled(click_selection, code)
                /\ Toggled(click_selection', code) = click_selection
          /\ BarClick(code, FALSE) => click_selection' = {code}]_vars

\* two states selected at once: a shift-click has added to a selection
C1_Witness == click_selection = {"CA", "PR"}

----------------------------------------------------------------------------
(* C2                                                                      *)

\* C2: in every state the rows of the line chart are the rows of
\* yearly_trends whose state is selected, in their order: none while the
\* selection is empty, the rows of CA alone while it is {CA}.
C2_LineChartShowsSelectedStates ==
    LET shown == LineChartRows(yearly_trends, click_selection)
    IN  /\ shown = SelectSeq(yearly_trends,
                             LAMBDA row : \E code \in click_selection : row["STATE"] = Some(code))
        /\ click_selection = {} => shown = <<>>
        /\ click_selection = {"CA"} =>
              /\ \A i \in DOMAIN shown : shown[i]["STATE"] = Some("CA")
              /\ Len(shown) = Matching(yearly_trends, "STATE" :> Some("CA"))

\* CA alone is selected, and yearly_trends has a row of CA and a row of PR
C2_Witness ==
    /\ click_selection = {"CA"}
    /\ Matching(yearly_trends, "STATE" :> Some("CA")) = 1
    /\ Matching(yearly_trends, "STATE" :> Some("PR")) = 1
    /\ Len(LineChartRows(yearly_trends, click_selection)) = 1

----------------------------------------------------------------------------
(* C3                                                                      *)

\* C3, as stated: a bar is fully opaque when its state is selected or
\* nothing is selected, and half transparent otherwise.
C3_OpaqueWhenSelectedOrEmpty ==
    \A code \in BarStates :
        BarOpacity(click_selection, code) =
            IF code \in click_selection \/ click_selection = {} THEN 100 ELSE 50

\* C3, amended: a bar is fully opaque exactly when its state is selected
\* and half transparent otherwise, so every bar is half transparent while
\* nothing is selected, the initial state included.
C3_OpaqueWhenSelected ==
    /\ \A code \in BarStates :
          BarOpacity(click_selection, code) =
              IF code \in click_selection THEN 100 ELSE 50
    /\ click_selection = {} =>
          \A code \in BarStates : BarOpacity(click_selection, code) = 50

\* the first pass has drawn two bars and nothing is selected yet
C3_Witness ==
    /\ "bar" \in charts
    /\ BarStates = {"CA", "PR"}
    /\ click_selection = {}

----------------------------------------------------------------------------
(* C4                                                                      *)

\* C4, as stated: for every state the counts of yearly_trends, summed over
\* the years, are the count of state_counts.
C4_YearSumsEqualStateCount ==
    \A i \in DOMAIN state_counts :
        SumCounts(yearly_trends, "STATE" :> state_counts[i]["STATE"])
            = state_counts[i]["Fire_Count"]

\* the rows of the file with this state cell and no year
RowsWithoutYear(cell) ==
    {i \in DOMAIN file : file[i]["STATE"] = cell /\ file[i]["FIRE_YEAR"] = Missing}

\* C4, amended: for every state the counts of yearly_trends, summed over the
\* years, are the count of state_counts less the number of rows of that
\* state whose year is missing; the two are equal when no row of the state
\* lacks its year.
C4_YearSumsOmitRowsWithoutYear ==
    /\ \A i \in DOMAIN state_counts :
          LET cell == state_counts[i]["STATE"]
              sum  == SumCounts(yearly_trends, "STATE" :> cell)
          IN  /\ sum = state_counts[i]["Fire_Count"] - Cardinality(RowsWithoutYear(cell))
              /\ RowsWithoutYear(cell) = {} => sum = state_counts[i]["Fire_Count"]
    /\ \A j \in DOMAIN yearly_trends :
          Matching(state_counts, "STATE" :> yearly_trends[j]["STATE"]) = 1

\* a state with two rows, one of them without a year
C4_Witness ==
    /\ Rendered
    /\ \E i \in DOMAIN state_counts :
          /\ state_counts[i]["Fire_Count"] = 2
          /\ SumCounts(yearly_trends, "STATE" :> state_counts[i]["STATE"]) = 1

----------------------------------------------------------------------------
(* C5                                                                      *)

\* C5: after lines 99-101 the table holds the rows of the file that have
\* both dates, a size and a cause and are contained no earlier than
\* discovered, each once and in the order of the file, and no other row;
\* each has DURATION_DAYS >= 0, the whole days in CONTAINMENT_DATE -
\* DISCOVERY_DATE; the strip and box views hold rows of that table only.
C5_DurationFilter ==
    Rendered =>
        /\ FileColumns(data) = SelectSeq(file, Kept)
        /\ \A j \in DOMAIN data :
              /\ data[j]["DURATION_DAYS"] # Missing
              /\ data[j]["FIRE_SIZE"] # Missing
              /\ data[j]["STAT_CAUSE_DESCR"] # Missing
              /\ LET elapsed == data[j]["CONTAINMENT_DATE"][1] - data[j]["DISCOVERY_DATE"][1]
                      days    == data[j]["DURATION_DAYS"][1]
                  IN  /\ days * TicksPerDay <= elapsed
                      /\ elapsed < (days + 1) * TicksPerDay
                      /\ days >= 0
        /\ Range(scatter_data) \subseteq Range(data)

\* a pass that dropped a row contained before its discovery and kept a row
\* contained on the day of its discovery
C5_Witness ==
    /\ status = "ok"
    /\ \E i \in DOMAIN file :
          /\ file[i]["DISCOVERY_DATE"] # Missing
          /\ file[i]["CONTAINMENT_DATE"] # Missing
          /\ file[i]["CONTAINMENT_DATE"][1] < file[i]["DISCOVERY_DATE"][1]
    /\ Len(data) = 1
    /\ data[1]["DURATION_DAYS"] = Some(0)
    /\ Len(scatter_data) = 1

----------------------------------------------------------------------------
(* C6                                                                      *)

\* C6: after every pass state_counts has one row per state of the file,
\* counting all the rows of the file with that state, and yearly_trends one
\* row per year and state of the file, counting all the rows with that year
\* and state: the rows that lines 99-101 drop are counted too.
C6_CountsIgnoreDurationFilter ==
    Rendered =>
        /\ \A code \in SampleStates :
              /\ SumCounts(state_counts, "STATE" :> Some(code))
                    = Cardinality(RowsOfState(code))
              /\ Matching(state_counts, "STATE" :> Some(code))
                    = IF RowsOfState(code) = {} THEN 0 ELSE 1
        /\ Len(state_counts) = Cardinality({code \in SampleStates : RowsOfState(code) # {}})
        /\ \A code \in SampleStates, year \in SampleYears :
              LET cells == ("STATE" :> Some(code)) @@ ("FIRE_YEAR" :> Some(year))
              IN  /\ SumCounts(yearly_trends, cells)
                        = Cardinality(RowsOfYearState(year, code))
                  /\ Matching(yearly_trends, cells)
                        = IF RowsOfYearState(year, code) = {} THEN 0 ELSE 1
        /\ Len(yearly_trends)
              = Cardinality({p \in SampleStates \X SampleYears :
                                RowsOfYearState(p[2], p[1]) # {}})

\* a pass whose filter dropped every row, both with state and year, and
\* whose counts hold both
C6_Witness ==
    /\ Rendered
    /\ Len(file) = 2
    /\ data = <<>>
    /\ \A i \in DOMAIN file : file[i]["STATE"] # Missing /\ file[i]["FIRE_YEAR"] # Missing
    /\ SumCounts(state_counts, <<>>) = 2
    /\ SumCounts(yearly_trends, <<>>) = 2

----------------------------------------------------------------------------
(* C7                                                                      *)

\* C7: after a pass that reached line 109 the strip and box views hold, in
\* the order of the file, every row that lines 99-101 keep when the
\* dropdown value is "All States", and the kept rows whose state is the
\* dropdown value, and no other row, when it is a state code.
C7_ViewsFollowDropdown ==
    status = "ok" =>
        /\ selected_state # Missing
        /\ selected_state = Some("All States") =>
              /\ scatter_data = data
              /\ FileColumns(scatter_data) = SelectSeq(file, Kept)
        /\ selected_state # Some("All States") =>
              /\ scatter_data = SelectSeq(data, LAMBDA row : row["STATE"] = selected_state)
              /\ FileColumns(scatter_data)
                    = SelectSeq(file, LAMBDA row : Kept(row) /\ row["STATE"] = selected_state)

\* the dropdown was set to PR; a row of CA and a row of PR pass the filter
\* and the views hold the row of PR alone
C7_Witness ==
    /\ status = "ok"
    /\ selected_state = Some("PR")
    /\ Len(data) = 2
    /\ Len(scatter_data) = 1
    /\ \E j \in DOMAIN data : data[j]["STATE"] = Some("CA")

----------------------------------------------------------------------------
(* C8                                                                      *)

USStatesAndDC ==
    {"AL", "AK", "AZ", "AR", "CA", "CO", "CT", "DE", "FL", "GA",
     "HI", "ID", "IL", "IN", "IA", "KS", "KY", "LA", "ME", "MD",
     "MA", "MI", "MN", "MS", "MO", "MT", "NE", "NV", "NH", "NJ",
     "NM", "NY", "NC", "ND", "OH", "OK", "OR", "PA", "RI", "SC",
     "SD", "TN", "TX", "UT", "VT", "VA", "WA", "WV", "WI", "WY", "DC"}

RegionsHolding(code) ==
    {i \in DOMAIN Regions : code \in Range(region_map(Regions[i]))}

\* the table names 9 regions; each of the 50 states and DC stands under
\* exactly one of them, once, and maps to it; no other code stands in it
RegionTableCoversStatesOnce ==
    /\ Cardinality(Range(Regions)) = 9
    /\ Cardinality(USStatesAndDC) = 51
    /\ \A code \in USStatesAndDC :
          /\ Cardinality(RegionsHolding(code)) = 1
          /\ \A i \in RegionsHolding(code) : state_to_region(code) = Some(Regions[i])
    /\ \A i \in DOMAIN Regions :
          /\ Range(region_map(Regions[i])) \subseteq USStatesAndDC
          /\ Len(region_map(Regions[i])) = Cardinality(Range(region_map(Regions[i])))

\* C8: each of the 50 states and DC stands under exactly one of the 9
\* regions and maps to it.  A pass over a file with rows of a code outside
\* the table reaches the charts of line 90, counts those rows in
\* state_counts and yearly_trends, and keeps them with a missing region.
C8_RegionMapping ==
    /\ RegionTableCoversStatesOnce
    /\ Rendered =>
          /\ {"bar", "line"} \subseteq charts
          /\ \A code \in SampleStates \ USStatesAndDC :
                /\ state_to_region(code) = Missing
                /\ SumCounts(state_counts, "STATE" :> Some(code))
                      = Cardinality(RowsOfState(code))
                /\ \A year \in SampleYears :
                      SumCounts(yearly_trends, ("STATE" :> Some(code)) @@ ("FIRE_YEAR" :> Some(year)))
                          = Cardinality(RowsOfYearState(year, code))
          /\ Len(data) = Len(SelectSeq(file, Kept))
          /\ \A j \in DOMAIN data :
                data[j]["REGION"] =
                    IF \E code \in USStatesAndDC : data[j]["STATE"] = Some(code)
                    THEN state_to_region(data[j]["STATE"][1])
                    ELSE Missing

\* a pass kept a row of PR, which stands under no region, and counted it
C8_Witness ==
    /\ Rendered
    /\ \E j \in DOMAIN data :
          /\ data[j]["STATE"] = Some("PR")
          /\ data[j]["REGION"] = Missing
    /\ SumCounts(state_counts, "STATE" :> Some("PR")) >= 1
    /\ \E j \in DOMAIN data : data[j]["REGION"] = Some("Pacific")

----------------------------------------------------------------------------
(* C9                                                                      *)

\* C9: once loaded, the table that st.cache_data holds is the table of the
\* file, with the columns of the file and all its rows, after every pass
\* and every click; each pass hands out the views of that table.
C9_CachedTableUnchanged ==
    /\ Rendered <=> cache.loaded
    /\ cache.loaded =>
          /\ cache.value = file
          /\ \A i \in DOMAIN cache.value : DOMAIN cache.value[i] = Columns
          /\ FileColumns(data) = SelectSeq(cache.value, Kept)
          /\ SumCounts(state_counts, <<>>)
                = Cardinality({i \in DOMAIN cache.value : cache.value[i]["STATE"] # Missing})

\* after a click and a pass run for the dropdown, a pass whose filter
\* dropped a row
C9_Witness ==
    /\ cache.loaded
    /\ widget # Missing
    /\ click_selection # {}
    /\ Len(data) = 1
    /\ Len(cache.value) = 2

----------------------------------------------------------------------------
(* C10                                                                     *)

\* the codes of the rows that lines 99-101 keep
SurvivingCodes ==
    {code \in SampleStates :
        \E i \in DOMAIN file : Kept(file[i]) /\ file[i]["STATE"] = Some(code)}

\* C10: the option list is "All States" and then the codes of the kept rows,
\* each once, ascending.  When CA is among them the pass ends well, and
\* while the dropdown was never changed its value is CA and the strip and
\* box views hold the kept rows of CA; when it is not, the pass fails
\* before line 109: no dropdown value, no strip and no box chart.
C10_DropdownDefaultsToCA ==
    Rendered =>
        /\ state_options[1] = "All States"
        /\ {state_options[i] : i \in 2..Len(state_options)} = SurvivingCodes
        /\ Len(state_options) = 1 + Cardinality(SurvivingCodes)
        /\ \A i \in 2..Len(state_options) : \A j \in (i + 1)..Len(state_options) :
              Rank(state_options[i]) < Rank(state_options[j])
        /\ "CA" \in SurvivingCodes =>
              /\ status = "ok"
              /\ {"strip", "box"} \subseteq charts
              /\ widget = Missing =>
                    /\ selected_state = Some("CA")
                    /\ FileColumns(scatter_data)
                          = SelectSeq(file, LAMBDA row : Kept(row) /\ row["STATE"] = Some("CA"))
        /\ "CA" \notin SurvivingCodes =>
              /\ status = "error"
              /\ selected_state = Missing
              /\ charts \cap {"strip", "box"} = {}
              /\ scatter_data = <<>>

\* the file has a row of CA, dropped by the filter, and a kept row of PR:
\* the pass has failed
C10_Witness ==
    /\ status = "error"
    /\ RowsOfState("CA") # {}
    /\ SurvivingCodes = {"PR"}

====
